---- MODULE Spec2Model ----
(***************************************************************************)
(* Model of the KPL receiving app (src/app.py): a Flask backend with four  *)
(* POST handlers and a Firestore 'orders' collection.                      *)
(*                                                                         *)
(* Strings are sequences of string chunks (a serial number is a sequence   *)
(* of single characters).  A JSON value is a record with one field per     *)
(* JSON type, so that any two JSON values can be compared.                 *)
(***************************************************************************)
EXTENDS Integers, Sequences, FiniteSets, TLC

(* ---------------- bounds ---------------- *)

\* number of HTTP requests in one behaviour
MaxReq == 2

\* number of outcomes of the random generator that are explored
NumDraws == 2

(* ---------------- program constants ---------------- *)

\* k=6 in random.choices
SuffixLen == 6

HTTP_OK == 200

HTTP_BAD_REQUEST == 400

HTTP_NOT_FOUND == 404

HTTP_SERVER_ERROR == 500

(* ---------------- JSON values ---------------- *)

J(t, s, n, b, a, o) == [t |-> t, s |-> s, n |-> n, b |-> b, a |-> a, o |-> o]

JNull == J("null", <<>>, 0, FALSE, <<>>, <<>>)

JBool(b) == J("bool", <<>>, 0, b, <<>>, <<>>)

JNum(n) == J("num", <<>>, n, FALSE, <<>>, <<>>)

JStr(s) == J("str", s, 0, FALSE, <<>>, <<>>)

JArr(a) == J("arr", <<>>, 0, FALSE, a, <<>>)

JObj(o) == J("obj", <<>>, 0, FALSE, <<>>, o)

\* a Firestore timestamp (DatetimeWithNanoseconds): a holds y, m, d, H, M, S
JTs(dt) == J("ts", <<>>, 0, FALSE, dt, <<>>)

\* a one-chunk string
Text(str) == JStr(<<str>>)

(* ---------------- Python semantics used by the handlers ---------------- *)

TruthyAnyObject(j) ==
    CASE j.t = "null" -> FALSE
      [] j.t = "bool" -> j.b
      [] j.t = "num"  -> j.n # 0
      [] j.t = "str"  -> Len(j.s) > 0
      [] j.t = "arr"  -> Len(j.a) > 0
      [] OTHER        -> TRUE

\* bool(x) as used by "if not order_data" / "if not serial_number"
Truthy(j) ==
    CASE j.t = "null" -> FALSE
      [] j.t = "bool" -> j.b
      [] j.t = "num"  -> j.n # 0
      [] j.t = "str"  -> Len(j.s) > 0
      [] j.t = "arr"  -> Len(j.a) > 0
      [] j.t = "obj"  -> DOMAIN j.o # {}
      [] OTHER        -> TRUE

\* only a dict has .get; on anything else x.get raises AttributeError
HasGet(j) == j.t = "obj"

\* dict.get(key, default)
DictGet(j, key, default) == IF key \in DOMAIN j.o THEN j.o[key] ELSE default

\* "for test in selected_tests: test.get(...)" raises: TypeError when the value
\* is not iterable, AttributeError on the first element that is not a dict
\* (iterating a str yields strs, iterating a dict yields its keys)
LogLoopRaises(tests) ==
    CASE tests.t = "arr" -> \E i \in 1..Len(tests.a) : ~HasGet(tests.a[i])
      [] tests.t = "str" -> Len(tests.s) > 0
      [] tests.t = "obj" -> DOMAIN tests.o # {}
      [] OTHER           -> TRUE

(* ---------------- formatting ---------------- *)

DigitChars == <<"0", "1", "2", "3", "4", "5", "6", "7", "8", "9">>

Digit(n) == DigitChars[n + 1]

\* the population of random.choices
Alphabet ==
    <<"0", "1", "2", "3", "4", "5", "6", "7", "8", "9",
      "A", "B", "C", "D", "E", "F", "G", "H", "I", "J", "K", "L", "M",
      "N", "O", "P", "Q", "R", "S", "T", "U", "V", "W", "X", "Y", "Z">>

\* a zero-padded two-digit field of strftime (%y, %m, %d, %H, %M, %S)
Pad2Unpadded(n) == IF n < 10 THEN <<Digit(n)>> ELSE <<Digit(n \div 10), Digit(n % 10)>>

Pad2(n) == <<Digit(n \div 10), Digit(n % 10)>>

\* %Y
Pad4(n) == <<Digit(n \div 1000), Digit((n \div 100) % 10), Digit((n \div 10) % 10), Digit(n % 10)>>

\* today.strftime("%y%m%d")
StrftimeYYMMDD(d) == Pad2(d.year % 100) \o Pad2(d.month) \o Pad2(d.day)

\* ts.strftime("%Y-%m-%d %H:%M:%S") of a stored timestamp
StrftimeDisplay(ts) ==
    Pad4(ts.a[1]) \o <<"-">> \o Pad2(ts.a[2]) \o <<"-">> \o Pad2(ts.a[3]) \o <<" ">>
      \o Pad2(ts.a[4]) \o <<":">> \o Pad2(ts.a[5]) \o <<":">> \o Pad2(ts.a[6])

\* the index sequences random.choices may draw (a bounded sample of 36^6)
Draws == { [i \in 1..SuffixLen |-> (s + 11 * i * s) % Len(Alphabet)] : s \in 0..(NumDraws - 1) }

\* ''.join(random.choices(Alphabet, k=6)) for one draw
RandomSuffix(draw) == [i \in 1..SuffixLen |-> Alphabet[draw[i] + 1]]

\* official_serial_number = f"{serial_prefix}-{random_suffix}"
OfficialSerialNumber(d, draw) ==
    <<"K", "P", "L", "-">> \o StrftimeYYMMDD(d) \o <<"-">> \o RandomSuffix(draw)

(* ---------------- inputs ---------------- *)

\* dates the server clock may show
Dates == { [year |-> 2005, month |-> 3, day |-> 7], [year |-> 2025, month |-> 12, day |-> 31] }

\* time of day of the store's server timestamp
ServerTimeOfDay == <<9, 5, 30>>

CBC == JObj("id" :> JNum(1) @@ "name" :> Text("CBC") @@ "price" :> JNum(20))

\* a request body: content type, whether the text parses, the parsed value
Body(ct, parses, json) == [ct |-> ct, parses |-> parses, json |-> json]

JsonBody(json) == Body("json", TRUE, json)

NoJsonBody == Body("other", FALSE, JNull)

InvalidJsonBody == Body("json", FALSE, JNull)

JaneOrder == JObj("patientName" :> Text("Jane Doe") @@ "tests" :> JArr(<<CBC>>))

PhoneOnlyOrder == JObj("phoneNumber" :> Text("555"))

BadTestsOrder == JObj("patientName" :> Text("John") @@ "tests" :> JArr(<<Text("CBC")>>))

OrderBodies ==
    { NoJsonBody, InvalidJsonBody, JsonBody(JObj(<<>>)),
      JsonBody(JArr(<<JNum(1)>>)), JsonBody(JaneOrder), JsonBody(PhoneOnlyOrder),
      JsonBody(BadTestsOrder) }

\* a well-formed serial number that no intake can generate (month 00)
NonexistentSerial ==
    <<"K", "P", "L", "-", "0", "0", "0", "0", "0", "0", "-", "A", "A", "A", "A", "A", "A">>

StatusBodies(d) ==
    { NoJsonBody, JsonBody(JObj(<<>>)),
      JsonBody(JObj("serialNumber" :> JStr(<<>>))),
      JsonBody(JObj("serialNumber" :> JNum(123))),
      JsonBody(JObj("serialNumber" :> JStr(NonexistentSerial))) }
    \cup { JsonBody(JObj("serialNumber" :> JStr(OfficialSerialNumber(d, draw)))) : draw \in Draws }

StubBodies(field) ==
    { NoJsonBody, JsonBody(JArr(<<JNum(1)>>)), JsonBody(JObj(field :> Text("x"))) }

(* ---------------- Flask ---------------- *)

\* request.is_json
IsJson(body) == body.ct = "json"

\* request.get_json(): the parsed value; raises BadRequest on unparsable text;
\* without a JSON content type it raises (Flask >= 2.1) or returns None
GetJson(body) ==
    IF IsJson(body)
    THEN IF body.parses THEN { [raised |-> FALSE, value |-> body.json] }
                        ELSE { [raised |-> TRUE, value |-> JNull] }
    ELSE { [raised |-> TRUE, value |-> JNull], [raised |-> FALSE, value |-> JNull] }

\* a response: status code, jsonify'd body, and whether it is Flask's answer
\* to an exception that escaped the handler
Response(code, json) == [code |-> code, json |-> json, unhandled |-> FALSE]

NoResponse == [code |-> 0, json |-> JNull, unhandled |-> FALSE]

UnhandledException == [code |-> HTTP_SERVER_ERROR, json |-> JNull, unhandled |-> TRUE]

(* ---------------- state ---------------- *)

\* store: the 'orders' collection, document id -> document
\* req:   the requests, in order of arrival
\* today: datetime.date.today()
\* db:    whether the module-level name db was bound at start-up
VARIABLES store, req, today, db

vars == <<store, req, today, db>>

Reqs == 1..MaxReq

IdleRequest ==
    [ep |-> "none", body |-> NoJsonBody, pc |-> "idle",
     serial |-> JNull, patient_name |-> JNull, phone_number |-> JNull,
     email_address |-> JNull, selected_tests |-> JNull,
     prior |-> {}, reads |-> 0, writes |-> 0, storeOp |-> "none",
     resp |-> NoResponse]

Init ==
    /\ store = <<>>
    /\ req = [r \in Reqs |-> IdleRequest]
    /\ today \in Dates
    /\ db \in BOOLEAN

\* requests are numbered as they arrive
Arrives(r) == req[r].pc = "idle" /\ (IF r = 1 THEN TRUE ELSE req[r - 1].pc # "idle")

Done(r) == req[r].pc = "done"

Finished == { q \in Reqs : Done(q) }

\* prior: the requests already answered when this one arrives
Arrived(r, ep, body) == [req[r] EXCEPT !.ep = ep, !.body = body, !.prior = Finished]

(* ---------------- /receive-order ---------------- *)

\* lines 56-87: parse, validate, extract, log, mint the serial number
HandleOrderRequest(r, body, out, draw) ==
    LET a == Arrived(r, "receive-order", body)
        order_data == out.value
        patient_name == DictGet(order_data, "patientName", Text("N/A"))
        phone_number == DictGet(order_data, "phoneNumber", Text("N/A"))
        email_address == DictGet(order_data, "emailAddress", Text("N/A"))
        selected_tests == DictGet(order_data, "tests", JArr(<<>>))
    IN  /\ Arrives(r)
        /\ req' = [req EXCEPT ![r] =
              IF out.raised
              THEN [a EXCEPT !.pc = "done",
                     !.resp = Response(HTTP_BAD_REQUEST,
                        JObj("success" :> JBool(FALSE) @@ "message" :> Text("Invalid JSON format.")))]
              ELSE IF ~Truthy(order_data)
              THEN [a EXCEPT !.pc = "done",
                     !.resp = Response(HTTP_BAD_REQUEST,
                        JObj("success" :> JBool(FALSE)
                             @@ "message" :> Text("No data received or data is not JSON.")))]
              ELSE IF ~HasGet(order_data) \/ LogLoopRaises(selected_tests)
              THEN [a EXCEPT !.pc = "done", !.resp = UnhandledException]
              ELSE [a EXCEPT !.pc = "save",
                     !.patient_name = patient_name, !.phone_number = phone_number,
                     !.email_address = email_address, !.selected_tests = selected_tests,
                     !.serial = JStr(OfficialSerialNumber(today, draw))]]
        /\ UNCHANGED <<store, today, db>>

\* the document written by order_ref.set, with SERVER_TIMESTAMP resolved
OrderDataToSaveSwapped(q) ==
    JObj("serialNumber" :> q.serial @@ "patientName" :> q.phone_number
         @@ "phoneNumber" :> q.patient_name @@ "emailAddress" :> q.email_address
         @@ "tests" :> q.selected_tests
         @@ "orderDate" :> JTs(<<today.year, today.month, today.day>> \o ServerTimeOfDay))

OrderDataToSave(q) ==
    JObj("serialNumber" :> q.serial @@ "patientName" :> q.patient_name
         @@ "phoneNumber" :> q.phone_number @@ "emailAddress" :> q.email_address
         @@ "tests" :> q.selected_tests
         @@ "orderDate" :> JTs(<<today.year, today.month, today.day>> \o ServerTimeOfDay))

\* Firestore set: create the document or replace the one at that id
StoreSetByPrefix(s, id, doc) ==
    [k \in DOMAIN s \cup {SubSeq(id, 1, 10)} |-> IF k = SubSeq(id, 1, 10) THEN doc ELSE s[k]]

StoreSetReplacingAll(s, id, doc) == [k \in {id} |-> doc]

StoreSet(s, id, doc) == [k \in DOMAIN s \cup {id} |-> IF k = id THEN doc ELSE s[k]]

\* lines 89-114: save (failure is logged and swallowed), answer
SaveOrder(r, ok) ==
    LET q == req[r]
        performed == db
        succeeded == db /\ ok
    IN  /\ q.pc = "save"
        /\ store' = IF succeeded THEN StoreSet(store, q.serial.s, OrderDataToSave(q)) ELSE store
        /\ req' = [req EXCEPT ![r] =
              [q EXCEPT !.pc = "done",
                 !.writes = q.writes + (IF performed THEN 1 ELSE 0),
                 !.storeOp = IF succeeded THEN "ok" ELSE "raised",
                 !.resp = Response(HTTP_OK,
                    JObj("success" :> JBool(TRUE)
                         @@ "message" :> Text("Order received successfully by Receiving App!")
                         @@ "serialNumber" :> q.serial
                         @@ "patientName" :> q.patient_name
                         @@ "selected_tests" :> q.selected_tests))]]
        /\ UNCHANGED <<today, db>>

(* ---------------- /get-order-status ---------------- *)

\* lines 140-142: the answer of the except clause
NotFoundOnError ==
    Response(HTTP_NOT_FOUND, JObj("status" :> Text("error") @@ "message" :> Text("Order not found.")))

InternalServerError ==
    Response(HTTP_SERVER_ERROR,
             JObj("status" :> Text("error") @@ "message" :> Text("Internal server error: ...")))

\* lines 119-124 (and the except clause, 140-142): parse, require the serial number
GetOrderStatus(r, body, out) ==
    LET a == Arrived(r, "get-order-status", body)
        request_data == out.value
        serial_number == DictGet(request_data, "serialNumber", JNull)
    IN  /\ Arrives(r)
        /\ req' = [req EXCEPT ![r] =
              IF out.raised \/ ~HasGet(request_data)
              THEN [a EXCEPT !.pc = "done", !.resp = InternalServerError]
              ELSE IF ~Truthy(serial_number)
              THEN [a EXCEPT !.pc = "done",
                     !.resp = Response(HTTP_BAD_REQUEST,
                        JObj("status" :> Text("error")
                             @@ "message" :> Text("Serial number is required.")))]
              ELSE [a EXCEPT !.pc = "read", !.serial = serial_number]]
        /\ UNCHANGED <<store, today, db>>

\* lines 131-135: to_dict(), with a timestamp orderDate turned into a string
OrderDetails(doc) ==
    JObj([k \in DOMAIN doc.o |->
            IF k = "orderDate" /\ doc.o[k].t = "ts"
            THEN JStr(StrftimeDisplay(doc.o[k]))
            ELSE doc.o[k]])

\* db.collection('orders').document(id) raises unless id is a string
DocumentRaises(id) == id.t # "str"

\* order_ref.get(): a snapshot of the document at that id
DocumentGetMissing(s, id) == [exists |-> FALSE, data |-> JNull]

DocumentGet(s, id) == [exists |-> id \in DOMAIN s, data |-> IF id \in DOMAIN s THEN s[id] ELSE JNull]

\* lines 126-142: one read of the document, answer 200 / 404, or 500 on any exception
ReadOrder(r, ok) ==
    LET q == req[r]
        performed == db /\ ~DocumentRaises(q.serial)
        succeeded == performed /\ ok
        order_doc == DocumentGet(store, q.serial.s)
    IN  /\ q.pc = "read"
        /\ req' = [req EXCEPT ![r] =
              [q EXCEPT !.pc = "done",
                 !.reads = q.reads + (IF performed THEN 1 ELSE 0),
                 !.storeOp = IF succeeded THEN "ok" ELSE "raised",
                 !.resp =
                    IF ~succeeded
                    THEN InternalServerError
                    ELSE IF order_doc.exists
                    THEN Response(HTTP_OK,
                            JObj("status" :> Text("success")
                                 @@ "order" :> OrderDetails(order_doc.data)))
                    ELSE Response(HTTP_NOT_FOUND,
                            JObj("status" :> Text("error")
                                 @@ "message" :> Text("Order not found.")))]]
        /\ UNCHANGED <<store, today, db>>

(* ---------------- the stub endpoints ---------------- *)

\* f"... '{value}': ..." of a JSON value
Interpolate(prefix, value) ==
    <<prefix>> \o (IF value.t = "str" THEN value.s ELSE <<"<repr>">>) \o <<"': This response came from your Python backend.">>

\* lines 147-153 / 157-163: an exception of get_json or of data.get escapes the
\* handler, and Flask answers it (BadRequest as 400, anything else as 500)
MockEndpoint(r, ep, field, key, prefix, body, out) ==
    LET a == Arrived(r, ep, body)
        data == out.value
    IN  /\ Arrives(r)
        /\ req' = [req EXCEPT ![r] =
              [a EXCEPT !.pc = "done",
                 !.resp =
                    IF ~IsJson(body)
                    THEN Response(HTTP_BAD_REQUEST,
                            JObj("status" :> Text("error") @@ "message" :> Text("Invalid request")))
                    ELSE IF out.raised
                    THEN [code |-> HTTP_BAD_REQUEST, json |-> JNull, unhandled |-> TRUE]
                    ELSE IF ~HasGet(data)
                    THEN UnhandledException
                    ELSE Response(HTTP_OK,
                            JObj("status" :> Text("success")
                                 @@ key :> JStr(Interpolate(prefix, DictGet(data, field, JStr(<<>>)))))) ]]
        /\ UNCHANGED <<store, today, db>>

InterpretReport(r, body, out) ==
    MockEndpoint(r, "interpret-report", "report_text", "interpretation",
                 "Backend Mock Interpretation for '", body, out)

GenerateHealthTips(r, body, out) ==
    MockEndpoint(r, "generate-health-tips", "health_goal", "tips",
                 "Backend Mock Health Tips for '", body, out)

(* ---------------- specification ---------------- *)

Next ==
    \/ \E r \in Reqs, body \in OrderBodies, draw \in Draws :
          \E out \in GetJson(body) : HandleOrderRequest(r, body, out, draw)
    \/ \E r \in Reqs, ok \in BOOLEAN : SaveOrder(r, ok)
    \/ \E r \in Reqs, body \in StatusBodies(today) :
          \E out \in GetJson(body) : GetOrderStatus(r, body, out)
    \/ \E r \in Reqs, ok \in BOOLEAN : ReadOrder(r, ok)
    \/ \E r \in Reqs, body \in StubBodies("report_text") :
          \E out \in GetJson(body) : InterpretReport(r, body, out)
    \/ \E r \in Reqs, body \in StubBodies("health_goal") :
          \E out \in GetJson(body) : GenerateHealthTips(r, body, out)

Spec == Init /\ [][Next]_vars

(* ---------------- vocabulary of the properties ---------------- *)

IsIntake(r) == req[r].ep = "receive-order"

IsLookup(r) == req[r].ep = "get-order-status"

IsStub(r) == req[r].ep \in {"interpret-report", "generate-health-tips"}

\* a member of a response or request object, null when absent
Member(j, key) == IF j.t = "obj" /\ key \in DOMAIN j.o THEN j.o[key] ELSE JNull

HasMember(j, key) == j.t = "obj" /\ key \in DOMAIN j.o

\* the body is a JSON object with at least one member
NonEmptyObject(body) ==
    body.ct = "json" /\ body.parses /\ body.json.t = "obj" /\ DOMAIN body.json.o # {}

\* the body carries no JSON, or JSON that is empty
EmptyBody(body) ==
    \/ body.ct # "json"
    \/ ~body.parses
    \/ body.json \in { JNull, JBool(FALSE), JNum(0), JStr(<<>>), JArr(<<>>), JObj(<<>>) }

\* what the client submitted, with the defaults for absent fields
SubmittedName(body) ==
    IF HasMember(body.json, "patientName") THEN body.json.o["patientName"] ELSE Text("N/A")

SubmittedTests(body) ==
    IF HasMember(body.json, "tests") THEN body.json.o["tests"] ELSE JArr(<<>>)

\* the serial number a lookup asks for, null when none is supplied
RequestedSerial(body) ==
    IF body.ct = "json" /\ body.parses THEN Member(body.json, "serialNumber") ELSE JNull

SuccessTrue(r) ==
    /\ req[r].resp.code = 200
    /\ ~req[r].resp.unhandled
    /\ Member(req[r].resp.json, "success") = JBool(TRUE)

StatusIs(resp, code, status) ==
    /\ resp.code = code
    /\ ~resp.unhandled
    /\ Member(resp.json, "status") = Text(status)

\* intake i was answered with success and lookup g, sent afterwards, asks for its serial number
LooksUp(g, i) ==
    /\ IsIntake(i) /\ Done(i) /\ NonEmptyObject(req[i].body) /\ SuccessTrue(i)
    /\ IsLookup(g) /\ Done(g) /\ i \in req[g].prior
    /\ RequestedSerial(req[g].body) = Member(req[i].resp.json, "serialNumber")

\* the lookup returned an order with the name and tests submitted at intake i
ReturnsOrderOf(g, i) ==
    LET order == Member(req[g].resp.json, "order")
    IN  /\ Member(order, "patientName") = SubmittedName(req[i].body)
        /\ Member(order, "tests") = SubmittedTests(req[i].body)

\* the intakes whose write of serial number s succeeded
Writers(s) == { j \in Reqs : IsIntake(j) /\ req[j].storeOp = "ok" /\ req[j].serial = s }

(* ---------------- C1 ---------------- *)

\* C1 as stated: every lookup of a serial number sent after the intake that
\* returned it with success answers 200 "success" with the submitted
\* patientName and tests.
C1_RoundTripAlways ==
    \A i \in Reqs, g \in Reqs :
        LooksUp(g, i) => StatusIs(req[g].resp, 200, "success") /\ ReturnsOrderOf(g, i)

\* C1 (amended): when the intake's store write succeeded and the lookup's store
\* read succeeds, the lookup answers 200 "success" with the order stored at that
\* serial number: the patientName and tests submitted at an intake that wrote
\* this serial number, which is this intake unless another one generated the
\* same serial number.
C1_RoundTripWhenStored ==
    \A i \in Reqs, g \in Reqs :
        (LooksUp(g, i) /\ req[i].storeOp = "ok" /\ req[g].storeOp = "ok")
            => /\ StatusIs(req[g].resp, 200, "success")
               /\ Member(Member(req[g].resp.json, "order"), "serialNumber") = req[i].serial
               /\ \E j \in Writers(req[i].serial) : ReturnsOrderOf(g, j)
               /\ (Writers(req[i].serial) = {i} => ReturnsOrderOf(g, i))

C1_Witness ==
    \E i \in Reqs, g \in Reqs :
        /\ LooksUp(g, i) /\ req[i].storeOp = "ok" /\ req[g].storeOp = "ok"
        /\ req[i].body = JsonBody(JaneOrder)
        /\ req[g].resp.code = 200

(* ---------------- C2 ---------------- *)

\* C2: every intake whose body is a non-empty JSON object is answered 200 with
\* success:true and the generated serial number, whatever the outcome of the
\* store write; after a failed write no document exists at that serial number.
C2_SuccessWhateverTheWrite ==
    \A r \in Reqs :
        (IsIntake(r) /\ Done(r) /\ NonEmptyObject(req[r].body))
            => /\ SuccessTrue(r)
               /\ req[r].serial.t = "str"
               /\ Member(req[r].resp.json, "serialNumber") = req[r].serial
               /\ (req[r].storeOp = "raised" => req[r].serial.s \notin DOMAIN store)

(* ---------------- C3 ---------------- *)

SameOrderFields(d, e) ==
    \A f \in {"patientName", "phoneNumber", "emailAddress", "tests"} : Member(d, f) = Member(e, f)

\* C3 as stated: a document that exists keeps existing with the same
\* patientName, phoneNumber, emailAddress and tests in every later state.
C3_NeverUpdated ==
    [][\A k \in DOMAIN store : k \in DOMAIN store' /\ SameOrderFields(store[k], store'[k])]_vars

\* C3 (amended): a document is never deleted, and its fields change only when a
\* /receive-order request that generated the same serial number writes it again
\* (set replaces the document); no other request changes it.
C3_OnlyReplacedBySameSerial ==
    [][\A k \in DOMAIN store :
          /\ k \in DOMAIN store'
          /\ store'[k] # store[k] =>
                \E r \in Reqs :
                    /\ IsIntake(r) /\ req[r].pc = "save" /\ req'[r].pc = "done"
                    /\ req'[r].storeOp = "ok"
                    /\ req[r].serial = JStr(k)
                    /\ Member(store'[k], "patientName") = req[r].patient_name
                    /\ Member(store'[k], "phoneNumber") = req[r].phone_number
                    /\ Member(store'[k], "emailAddress") = req[r].email_address
                    /\ Member(store'[k], "tests") = req[r].selected_tests]_vars

\* two intakes wrote different serial numbers one after the other, both documents exist
C3_Witness ==
    \E i \in Reqs, j \in Reqs :
        /\ IsIntake(i) /\ IsIntake(j) /\ i \in req[j].prior
        /\ req[i].storeOp = "ok" /\ req[j].storeOp = "ok"
        /\ req[i].serial # req[j].serial
        /\ {req[i].serial.s, req[j].serial.s} \subseteq DOMAIN store

(* ---------------- C4 ---------------- *)

DigitValue(c) == CHOOSE n \in 0..9 : DigitChars[n + 1] = c

IsDigit(c) == \E n \in 0..9 : DigitChars[n + 1] = c

IsAlphanumeric(c) == \E n \in 1..36 : Alphabet[n] = c

TwoDigits(s, at) == 10 * DigitValue(s[at]) + DigitValue(s[at + 1])

\* "KPL-" + YYMMDD of the date d + "-" + six characters of 0-9A-Z
WellFormedSerial(s, d) ==
    /\ Len(s) = 17
    /\ SubSeq(s, 1, 4) = <<"K", "P", "L", "-">>
    /\ \A at \in 5..10 : IsDigit(s[at])
    /\ TwoDigits(s, 5) = d.year % 100
    /\ TwoDigits(s, 7) = d.month
    /\ TwoDigits(s, 9) = d.day
    /\ s[11] = "-"
    /\ \A at \in 12..17 : IsAlphanumeric(s[at])

\* C4: the serial number returned by an intake is KPL-YYMMDD-XXXXXX for the
\* server's date, and it is the key and the serialNumber field of the document
\* the intake wrote.
C4_SerialFormat ==
    \A r \in Reqs :
        (IsIntake(r) /\ Done(r) /\ req[r].resp.code = 200)
            => LET s == Member(req[r].resp.json, "serialNumber")
               IN  /\ s.t = "str"
                   /\ WellFormedSerial(s.s, today)
                   /\ req[r].storeOp = "ok" =>
                        /\ s.s \in DOMAIN store
                        /\ Member(store[s.s], "serialNumber") = s

C4_Witness ==
    \E r \in Reqs :
        /\ IsIntake(r) /\ Done(r) /\ req[r].resp.code = 200 /\ req[r].storeOp = "ok"
        /\ today.month < 10

(* ---------------- C5 ---------------- *)

\* C5: an intake with an empty body is answered 400 with success:false, no
\* serial number is generated, and no write is made: the store is unchanged.
C5_EmptyBodyRejected ==
    [][\A r \in Reqs :
          (req[r].pc = "idle" /\ req'[r].ep = "receive-order" /\ EmptyBody(req'[r].body))
            => /\ req'[r].pc = "done"
               /\ req'[r].resp.code = 400
               /\ Member(req'[r].resp.json, "success") = JBool(FALSE)
               /\ ~HasMember(req'[r].resp.json, "serialNumber")
               /\ req'[r].serial = JNull
               /\ req'[r].writes = 0
               /\ store' = store]_vars

C5_Witness ==
    \E r \in Reqs :
        /\ IsIntake(r) /\ Done(r) /\ req[r].body = JsonBody(JObj(<<>>))
        /\ req[r].resp.code = 400

(* ---------------- C6 ---------------- *)

\* C6: a lookup with a non-empty serial number whose store read succeeds
\* answers 404 "error" when no document exists at that key and 200 "success"
\* when one does; a serial number no intake wrote always yields 404.
C6_FoundOrNotFound ==
    /\ [][\A r \in Reqs :
            (req[r].pc = "read" /\ req'[r].pc = "done" /\ req'[r].storeOp = "ok")
              => IF req[r].serial.s \in DOMAIN store
                 THEN StatusIs(req'[r].resp, 200, "success")
                 ELSE StatusIs(req'[r].resp, 404, "error")]_vars
    /\ [](\A g \in Reqs :
            (IsLookup(g) /\ Done(g) /\ req[g].storeOp = "ok" /\ Writers(req[g].serial) = {})
              => StatusIs(req[g].resp, 404, "error"))

\* the store holds an order, and a lookup of another serial number read it and answered 404
C6_Witness ==
    \E g \in Reqs :
        /\ IsLookup(g) /\ Done(g) /\ req[g].storeOp = "ok" /\ req[g].reads = 1
        /\ DOMAIN store # {} /\ req[g].serial.s \notin DOMAIN store
        /\ req[g].resp.code = 404

(* ---------------- C7 ---------------- *)

\* C7: every lookup that supplies no serial number (the field is missing from
\* the body, or empty) is answered 400 "error", and reads nothing.
C7_MissingSerialIs400 ==
    \A g \in Reqs :
        (IsLookup(g) /\ Done(g) /\ RequestedSerial(req[g].body) \in {JNull, JStr(<<>>)})
            => StatusIs(req[g].resp, 400, "error") /\ req[g].reads = 0

(* ---------------- C8 ---------------- *)

\* C8: when the store read of a lookup raises (the client being unavailable
\* included), the answer is 500 "error", the read is not tried again, and the
\* store is unchanged.
C8_ReadFailureIs500 ==
    [][\A r \in Reqs :
          (req[r].pc = "read" /\ req'[r].pc = "done" /\ req'[r].storeOp = "raised")
            => /\ StatusIs(req'[r].resp, 500, "error")
               /\ req'[r].reads <= 1
               /\ (db /\ req[r].serial.t = "str") => req'[r].reads = 1
               /\ store' = store]_vars

C8_Witness ==
    /\ \E g \in Reqs : IsLookup(g) /\ Done(g) /\ req[g].storeOp = "raised"
                        /\ req[g].reads = 1 /\ req[g].resp.code = 500
    /\ \E g \in Reqs : IsLookup(g) /\ Done(g) /\ req[g].storeOp = "raised"
                        /\ req[g].reads = 0 /\ req[g].resp.code = 500

(* ---------------- C9 ---------------- *)

\* C9: every intake, whatever its body and whatever the store does, is answered
\* 200 with success:true or 400 with success:false, never by an exception that
\* escapes the handler.
C9_Only200Or400 ==
    \A r \in Reqs :
        (IsIntake(r) /\ Done(r))
            => /\ ~req[r].resp.unhandled
               /\ \/ req[r].resp.code = 200 /\ Member(req[r].resp.json, "success") = JBool(TRUE)
                  \/ req[r].resp.code = 400 /\ Member(req[r].resp.json, "success") = JBool(FALSE)

(* ---------------- C10 ---------------- *)

\* the store operations each kind of request may perform
OperationCounts ==
    \A r \in Reqs :
        /\ IsIntake(r) => req[r].reads = 0 /\ req[r].writes <= 1
        /\ IsLookup(r) => req[r].reads <= 1 /\ req[r].writes = 0
        /\ IsStub(r) => req[r].reads = 0 /\ req[r].writes = 0
        /\ req[r].ep = "none" => req[r].reads = 0 /\ req[r].writes = 0

\* neither request was answered before the other arrived
Concurrent(i, j) == i # j /\ i \notin req[j].prior /\ j \notin req[i].prior

ConcurrentIntakes(i, j) ==
    /\ IsIntake(i) /\ IsIntake(j) /\ Concurrent(i, j)
    /\ Done(i) /\ Done(j) /\ SuccessTrue(i) /\ SuccessTrue(j)
    /\ req[i].serial # req[j].serial

\* the store changes only in the write of an intake, and only at the key that
\* is the serial number the intake returns
OnlyIntakeWrites ==
    \A k \in DOMAIN store' :
        (k \notin DOMAIN store \/ store'[k] # store[k])
            => \E r \in Reqs :
                  /\ IsIntake(r) /\ req[r].pc = "save" /\ req'[r].pc = "done"
                  /\ req'[r].writes = req[r].writes + 1
                  /\ Member(req'[r].resp.json, "serialNumber") = JStr(k)

\* C10 as stated: the operation counts per request, and two concurrent intakes
\* with different serial numbers both leave their document in the store.
C10_BothDocumentsAlways ==
    /\ OperationCounts
    /\ \A i \in Reqs, j \in Reqs :
          ConcurrentIntakes(i, j) => {req[i].serial.s, req[j].serial.s} \subseteq DOMAIN store

\* C10 (amended): the operation counts per request; the store changes only in
\* /receive-order writes; two concurrent intakes with different serial numbers
\* whose store writes both succeed both leave a document at their serial number
\* (their own, unless a further intake with the same serial number replaced it).
C10_OneOperationPerRequest ==
    /\ [](OperationCounts)
    /\ [][OnlyIntakeWrites /\ DOMAIN store \subseteq DOMAIN store']_vars
    /\ [](\A i \in Reqs, j \in Reqs :
            (ConcurrentIntakes(i, j) /\ req[i].storeOp = "ok" /\ req[j].storeOp = "ok")
              => /\ {req[i].serial.s, req[j].serial.s} \subseteq DOMAIN store
                 /\ \E w \in Writers(req[i].serial) :
                        Member(store[req[i].serial.s], "patientName") = req[w].patient_name
                 /\ \E w \in Writers(req[j].serial) :
                        Member(store[req[j].serial.s], "patientName") = req[w].patient_name)

C10_Witness ==
    \E i \in Reqs, j \in Reqs :
        /\ ConcurrentIntakes(i, j) /\ req[i].storeOp = "ok" /\ req[j].storeOp = "ok"
        /\ req[i].writes = 1 /\ req[j].writes = 1

====
